---- MODULE Spec2Model ----
(***************************************************************************)
(* HISAT2GUI (src/hisat2_GUI.py): the foreground handlers Run Alignment,   *)
(* Stop and Build Index, the worker threads they start, and the external   *)
(* processes the workers launch, as one state machine.                     *)
(*                                                                         *)
(* self.running and self.process are the two attributes shared by every    *)
(* thread.  A worker is a Python thread: its position (pc) moves through   *)
(* the statements of _run_alignment_thread / run_batch_alignment /         *)
(* run_single_alignment or of _build_index_thread; one action is one       *)
(* stretch of code between two accesses to shared state or two blocking    *)
(* calls.  An external process is live from Popen until it exits by itself *)
(* or is terminated; the lines it has written and the worker has not yet   *)
(* read stay readable after it has exited.                                 *)
(***************************************************************************)
EXTENDS Integers, Sequences, FiniteSets, TLC

\* Bounds of the model.
MaxWorkers == 2      \* threads alive at the same time
MaxSamples == 2      \* files matching the batch globs
MaxLines == 1        \* lines the output pipe of a process holds unread
MaxPending == 1      \* callbacks queued with root.after and not yet run

\* returncode of a process ended by Popen.terminate() is -SIGTERM.
SIGTERM == 15
ExitCodes == {0, 1}  \* a process that exits by itself: success or failure

Workers == 1..MaxWorkers
None == 0            \* self.process = None; otherwise the worker whose Popen it is

\* A file name or sample name is a string, held as the sequence of its
\* tokens.  Tokens lists the tokens in the order of their first characters
\* ('.' < '_' < letters): no token is a prefix of another and '.' and '_'
\* occur only at the start of a token, so that comparing two strings token by
\* token is comparing them character by character, and an occurrence of one
\* of the substrings the code removes is an occurrence of its token.
Tokens == <<".1", ".2", ".fastq", ".fq", ".gz", "_R1", "_R2", "a", "b", "c", "u">>
Suffixes == {".1", ".2", ".fastq", ".fq", ".gz"}
Rank(t) == CHOOSE k \in 1..Len(Tokens) : Tokens[k] = t

\* s < t on Python strings.
RECURSIVE StrLess(_, _)
StrLess(s, t) ==
    IF s = <<>> THEN t # <<>>
    ELSE IF t = <<>> THEN FALSE
    ELSE IF s[1] = t[1] THEN StrLess(Tail(s), Tail(t))
    ELSE Rank(s[1]) < Rank(t[1])

\* sorted(files) for a list without duplicates.
RECURSIVE sorted(_)
sorted(S) ==
    IF S = {} THEN <<>>
    ELSE LET m == CHOOSE x \in S : \A y \in S \ {x} : StrLess(x, y)
         IN  <<m>> \o sorted(S \ {m})

\* s.replace(old, '')
replace(s, old) == SelectSeq(s, LAMBDA t : t # old)

\* Path(s).stem: the name without its last suffix.
stem(s) ==
    LET dots == {k \in 2..Len(s) : s[k] \in Suffixes}
    IN  IF dots = {} THEN s
        ELSE SubSeq(s, 1, (CHOOSE k \in dots : \A j \in dots : j <= k) - 1)

\* Values of the entry fields self.input_files and self.input_files2: the
\* empty string, a file of the batch directory, or a file the user chose.
Empty == <<>>
UserFile == <<"u", "_R1", ".fastq", ".gz">>
UserFile2 == <<"u", "_R2", ".fastq", ".gz">>
UserName == <<"u">>  \* a name typed into the Sample Name entry

\* The k-th file the batch globs match: the mates of sample a, then those of
\* sample b, and so on.
Letters == <<"a", "b", "c">>
DirFile(k) == <<Letters[(k + 1) \div 2], IF k % 2 = 1 THEN "_R1" ELSE "_R2", ".fastq">>

VARIABLES
    running,         \* self.running
    process,         \* self.process
    stop_button,     \* state of the Stop button: "normal" or "disabled"
    after_queue,     \* callbacks queued by root.after(0, ...) not yet run
    cfg,             \* the settings made in the form (see Configs)
    nfiles,          \* number of files the batch globs match
    output_dir_exists, \* the directory named in the Output Directory field exists
    input_files,     \* self.input_files
    input_files2,    \* self.input_files2
    sample_name,     \* self.sample_name
    messagebox,      \* the error dialog shown last, "none" if none was shown
    output_text,     \* the output console: "" when it holds no text
    wk,              \* the worker threads
    call             \* a method applied on its own: name, argument, result

vars == <<running, process, stop_button, after_queue, cfg, nfiles, output_dir_exists,
          input_files, input_files2, sample_name, messagebox, output_text,
          wk, call>>

\* A thread slot that holds no thread.  kind..term are a thread's own state
\* (its locals: the list samples and the index i of the batch loop, the
\* command cmd of the current job, its Popen object); files..conv are what
\* its current job has produced; the fields after them record what happened during the run:
\*   cfg0       the settings of the form when the thread was started
\*   launched   the Samples whose process this run has launched, in order
\*   raised     an exception was raised in this run
\*   error      the exception raised last in this run
\*   stopped    a Stop click was accepted while this run was active
\*   cancelled  stop_alignment terminated a live process of this run
\*   jobStop    a Stop click was accepted while this job's lines were read
\*   lateLine   a line of this job was delivered after that
NoWorker ==
    [kind |-> "none", pc |-> "idle", batch |-> FALSE, samples |-> <<>>, i |-> 0,
     job |-> UserFile, cmd |-> "none", cfg0 |-> "none",
     ps |-> "none", rc |-> 0, buf |-> 0, term |-> "none",
     files |-> {}, outcome |-> "none", conv |-> "none",
     launched |-> <<>>, raised |-> FALSE, error |-> "none", stopped |-> FALSE, cancelled |-> FALSE,
     jobStop |-> FALSE, lateLine |-> FALSE]

Active(w) == wk[w].pc # "idle"

\* No method is applied on its own.
NoCall == [fn |-> "none", arg |-> "none", done |-> FALSE, ret |-> "none"]

\* Values of the Threads spinbox and of the Preset Mode menu.
ThreadCounts == {4, 8}
Presets == {"fast", "sensitive", "very-sensitive"}

\* The settings of the form that the handlers and workers read.  A path
\* field is TRUE when it holds a non-empty string.  sample_name is what the
\* user typed into the Sample Name entry; the entry itself is the variable
\* sample_name, which the batch loop overwrites.
Configs ==
    [batch_mode : BOOLEAN, alignment_mode : {"single", "paired"},
     convert_to_bam : BOOLEAN, index_path : BOOLEAN, batch_input_dir : BOOLEAN,
     output_dir : BOOLEAN, index_fasta : BOOLEAN, index_base : BOOLEAN,
     threads : ThreadCounts, preset_mode : Presets, dta_mode : BOOLEAN,
     strand_specific : BOOLEAN, strand_direction : {"unstranded", "fr", "rf"},
     sample_name : {Empty, UserName}]

\* The alignment options as the constructor leaves them.
DefaultOptions(c) ==
    /\ c.threads = 4
    /\ c.preset_mode = "sensitive"
    /\ ~c.dta_mode
    /\ ~c.strand_specific
    /\ c.strand_direction = "unstranded"
    /\ c.sample_name = Empty

\* validate_inputs: the first required input that is missing, "ok" if none.
validate_inputs(c, in1, in2) ==
    IF ~c.index_path THEN "Please select a HISAT2 index"
    ELSE IF c.batch_mode /\ ~c.batch_input_dir
    THEN "Please select an input directory for batch mode"
    ELSE IF ~c.batch_mode /\ in1 = Empty THEN "Please select input FASTQ file(s)"
    ELSE IF ~c.batch_mode /\ c.alignment_mode = "paired" /\ in2 = Empty
    THEN "Please select second FASTQ file for paired-end mode"
    ELSE IF ~c.output_dir THEN "Please select an output directory"
    ELSE "ok"

\* The test of build_index on its two fields.
validate_index(c) ==
    IF ~c.index_fasta \/ ~c.index_base
    THEN "Please select FASTA file and enter index base name"
    ELSE "ok"

\* The path fields of a configuration and of the two input entries that are
\* empty.
EmptyFields(c, in1, in2) ==
    {f \in {"index_path", "batch_input_dir", "output_dir", "index_fasta", "index_base"} : ~c[f]}
        \cup (IF in1 = Empty THEN {"input_files"} ELSE {})
        \cup (IF in2 = Empty THEN {"input_files2"} ELSE {})

\* The state after construction and after the user has filled in the form:
\* every field is filled in, or exactly one field is empty and the handler
\* that needs it rejects the click (an empty field of the index form is drawn
\* in single-sample mode).  Batch directories are drawn in single-end mode,
\* where every matching file is one Sample.  The alignment options are the
\* defaults.  The console of a form that Run Alignment rejects may hold the
\* text of an earlier run.  The output directory of a form that Run Alignment
\* accepts may exist already.
Idle ==
    /\ running = FALSE
    /\ process = None
    /\ stop_button = "disabled"
    /\ after_queue = 0
    /\ messagebox = "none"
    /\ wk = [w \in Workers |-> NoWorker]

Init ==
    /\ Idle
    /\ cfg \in Configs
    /\ DefaultOptions(cfg)
    /\ sample_name = cfg.sample_name
    /\ input_files \in {Empty, UserFile}
    /\ input_files2 \in {Empty, UserFile2}
    /\ cfg.batch_mode => cfg.alignment_mode = "single"
    /\ LET e == EmptyFields(cfg, input_files, input_files2)
       IN  \/ e = {}
           \/ /\ Cardinality(e) = 1
              /\ \/ validate_inputs(cfg, input_files, input_files2) # "ok"
                 \/ validate_index(cfg) # "ok" /\ ~cfg.batch_mode
    /\ nfiles \in IF cfg.batch_mode THEN 0..MaxSamples ELSE {0}
    /\ output_dir_exists \in IF validate_inputs(cfg, input_files, input_files2) = "ok"
                             THEN BOOLEAN ELSE {FALSE}
    /\ output_text \in IF validate_inputs(cfg, input_files, input_files2) = "ok"
                       THEN {""} ELSE {"", "text"}
    /\ call = NoCall

\* The new thread takes the first free slot.
StartThread(kind, pc0) ==
    \E w \in Workers :
        /\ ~Active(w)
        /\ \A v \in Workers : v < w => Active(v)
        /\ wk' = [wk EXCEPT ![w] = [NoWorker EXCEPT !.kind = kind, !.pc = pc0,
                                                     !.cfg0 = cfg]]

\* A Run Alignment that starts the run without validating the form.
run_alignment_unvalidated ==
    /\ ~running
    /\ running' = TRUE
    /\ stop_button' = "normal"
    /\ output_text' = ""
    /\ StartThread("align", "start")
    /\ UNCHANGED <<process, after_queue, cfg, nfiles, output_dir_exists, input_files, input_files2,
                   sample_name, messagebox, call>>

\* Click on Run Alignment: nothing happens while a run is active; a missing
\* input is reported in a dialog and nothing else happens.
run_alignment ==
    /\ ~running
    /\ LET v == validate_inputs(cfg, input_files, input_files2)
       IN  IF v # "ok"
           THEN /\ messagebox' = v
                /\ UNCHANGED <<running, stop_button, output_text, wk>>
           ELSE /\ running' = TRUE
                /\ stop_button' = "normal"
                /\ output_text' = ""
                /\ StartThread("align", "start")
                /\ UNCHANGED messagebox
    /\ UNCHANGED <<process, after_queue, cfg, nfiles, output_dir_exists, input_files, input_files2,
                   sample_name, call>>

\* Click on Build Index: a missing field is reported in a dialog; otherwise
\* the thread is started whatever self.running and self.process are.
build_index ==
    /\ LET v == validate_index(cfg)
       IN  IF v # "ok"
           THEN /\ messagebox' = v
                /\ UNCHANGED wk
           ELSE /\ StartThread("index", "ilaunch")
                /\ UNCHANGED messagebox
    /\ UNCHANGED <<running, process, stop_button, after_queue, cfg, nfiles, output_dir_exists,
                   input_files, input_files2, sample_name, output_text, call>>

\* Popen.terminate(): a live process ends with returncode -SIGTERM; a process
\* that has already exited keeps its returncode.
Terminate(r, who) ==
    IF r.ps = "live"
    THEN [r EXCEPT !.ps = "exited", !.rc = -SIGTERM, !.term = who]
    ELSE r

\* Click on Stop (the button takes clicks only while its state is normal).
stop_alignment ==
    /\ stop_button = "normal"
    /\ IF running /\ process # None
       THEN /\ running' = FALSE
            /\ wk' = [v \in Workers |->
                        LET r == IF v = process THEN Terminate(wk[v], "stop") ELSE wk[v]
                            s == IF Active(v) THEN [r EXCEPT !.stopped = TRUE] ELSE r
                        IN  IF v = process
                            THEN [s EXCEPT !.cancelled = @ \/ wk[v].ps = "live",
                                           !.jobStop = @ \/ wk[v].pc \in {"read", "iread"}]
                            ELSE s]
            /\ output_text' = "text"
       ELSE UNCHANGED <<running, wk, output_text>>
    /\ UNCHANGED <<process, stop_button, after_queue, cfg, nfiles, output_dir_exists,
                   input_files, input_files2, sample_name, messagebox, call>>

\* The callback queued at line 563 runs in the foreground.
after_callback ==
    /\ after_queue > 0
    /\ after_queue' = after_queue - 1
    /\ stop_button' = "disabled"
    /\ UNCHANGED <<running, process, cfg, nfiles, output_dir_exists, input_files, input_files2,
                   sample_name, messagebox, output_text, wk, call>>

\* A pairing loop that goes on with the second file of a pair it has made.
RECURSIVE pair_from_second(_, _)
pair_from_second(files, i) ==
    IF i > Len(files) THEN [samples |-> <<>>, warnings |-> <<>>]
    ELSE IF i + 1 > Len(files)
    THEN [samples |-> <<>>,
          warnings |-> <<[msg |-> "Unpaired file", file |-> files[i]]>>]
    ELSE LET r == pair_from_second(files, i + 1)
         IN  IF replace(replace(files[i], "_R1"), ".fastq")
                  = replace(replace(files[i + 1], "_R2"), ".fastq")
             THEN [samples |-> <<[name |-> replace(stem(files[i]), "_R1"),
                                  files |-> <<files[i], files[i + 1]>>]>> \o r.samples,
                   warnings |-> r.warnings]
             ELSE [samples |-> r.samples,
                   warnings |-> <<[msg |-> "Could not pair file", file |-> files[i]]>>
                                    \o r.warnings]

\* group_paired_files from index i of the sorted list on: the Samples
\* appended and the warnings logged.
RECURSIVE pair_from(_, _)
pair_from(files, i) ==
    IF i > Len(files) THEN [samples |-> <<>>, warnings |-> <<>>]
    ELSE IF i + 1 > Len(files)
    THEN [samples |-> <<>>,
          warnings |-> <<[msg |-> "Unpaired file", file |-> files[i]]>>]
    ELSE LET base1 == replace(replace(replace(replace(files[i], "_R1"), ".1"), ".fastq"), ".fq")
             base2 == replace(replace(replace(replace(files[i + 1], "_R2"), ".2"), ".fastq"), ".fq")
         IN  IF base1 = base2
             THEN LET r == pair_from(files, i + 2)
                  IN  [samples |-> <<[name |-> replace(replace(stem(files[i]), "_R1"), ".1"),
                                      files |-> <<files[i], files[i + 1]>>]>> \o r.samples,
                       warnings |-> r.warnings]
             ELSE LET r == pair_from(files, i + 1)
                  IN  [samples |-> r.samples,
                       warnings |-> <<[msg |-> "Could not pair file", file |-> files[i]]>>
                                        \o r.warnings]

\* group_paired_files on the files of one directory, given by their names
\* (the path of the directory, the same in every str(f), is left out: it is
\* taken to hold none of the substrings that are removed).
group_paired_files(files) == pair_from(sorted(files), 1)

\* The list samples of run_batch_alignment for a directory of n files.
Samples(mode, n) ==
    IF mode = "paired"
    THEN group_paired_files({DirFile(k) : k \in 1..n}).samples
    ELSE [k \in 1..n |->
            [name |-> replace(replace(stem(DirFile(k)), ".fastq"), ".fq"),
             files |-> <<DirFile(k)>>]]

\* base_name of run_single_alignment.
base_name(name, in1) ==
    IF name # Empty THEN name
    ELSE replace(replace(stem(in1), ".fastq"), ".fq")

\* The options appended for strand-specific mode.
strandness(c) ==
    IF c.strand_specific
    THEN IF c.strand_direction = "fr" THEN <<"--rna-strandness FR">>
         ELSE IF c.strand_direction = "rf" THEN <<"--rna-strandness RF">>
         ELSE <<>>
    ELSE <<>>

\* The command list of run_single_alignment, by its parts: the index, the
\* options, the strandness options, the input options and the output path.
build_command(c, in1, in2, name) ==
    [x |-> c.index_path, p |-> c.threads, preset |-> c.preset_mode,
     dta |-> IF c.dta_mode THEN "--dta" ELSE "",
     strandness |-> strandness(c),
     inputs |-> IF c.alignment_mode = "single"
                THEN <<[flag |-> "-U", file |-> in1]>>
                ELSE <<[flag |-> "-1", file |-> in1], [flag |-> "-2", file |-> in2]>>,
     S |-> [dir |-> c.output_dir, base |-> base_name(name, in1), ext |-> ".sam"]]

\* A thread that goes into the batch loop without testing for an empty list.
run_alignment_thread_unchecked(w) ==
    /\ wk[w].pc = "start"
    /\ wk' = [wk EXCEPT ![w] =
                 IF cfg.batch_mode
                 THEN [@ EXCEPT !.batch = TRUE,
                                !.samples = Samples(cfg.alignment_mode, nfiles),
                                !.pc = "loop"]
                 ELSE [@ EXCEPT !.pc = "setup"]]
    /\ UNCHANGED <<running, process, stop_button, after_queue, cfg, nfiles, output_dir_exists,
                   input_files, input_files2, sample_name, messagebox,
                   output_text, call>>

\* _run_alignment_thread up to the batch loop or the single job: an empty
\* directory is reported and the thread goes to its finally block; otherwise
\* the list of Samples is made, and group_paired_files logs its warnings.
run_alignment_thread(w) ==
    /\ wk[w].pc = "start"
    /\ IF cfg.batch_mode
       THEN IF nfiles = 0
            THEN /\ wk' = [wk EXCEPT ![w].batch = TRUE, ![w].outcome = "empty",
                                     ![w].pc = "finally"]
                 /\ output_text' = "text"
            ELSE /\ wk' = [wk EXCEPT ![w].batch = TRUE,
                                     ![w].samples = Samples(cfg.alignment_mode, nfiles),
                                     ![w].pc = "loop"]
                 /\ output_text' = IF cfg.alignment_mode = "paired"
                                      /\ group_paired_files({DirFile(k) : k \in 1..nfiles}).warnings # <<>>
                                   THEN "text" ELSE output_text
       ELSE /\ wk' = [wk EXCEPT ![w].pc = "setup"]
            /\ UNCHANGED output_text
    /\ UNCHANGED <<running, process, stop_button, after_queue, cfg, nfiles, output_dir_exists,
                   input_files, input_files2, sample_name, messagebox, call>>

\* The test at the head of the batch loop.
LoopBreak(w) == ~running

\* One turn of "for sample in samples" up to the call of run_single_alignment:
\* the Sample's files and name are written to the entry fields of the form.
\* In paired mode a Sample of one file raises IndexError at line 673, which
\* leaves through _run_alignment_thread's handler.
run_batch_alignment(w) ==
    /\ wk[w].pc = "loop"
    /\ IF wk[w].i >= Len(wk[w].samples) \/ LoopBreak(w)
       THEN /\ wk' = [wk EXCEPT ![w].pc = "finally"]
            /\ UNCHANGED <<input_files, input_files2, sample_name, output_text>>
       ELSE LET sample == wk[w].samples[wk[w].i + 1]
            IN  /\ input_files' = sample.files[1]
                /\ IF cfg.alignment_mode = "paired" /\ Len(sample.files) < 2
                   THEN /\ wk' = [wk EXCEPT ![w].i = @ + 1, ![w].raised = TRUE,
                                            ![w].error = "IndexError",
                                            ![w].pc = "finally"]
                        /\ output_text' = "text"
                        /\ UNCHANGED <<input_files2, sample_name>>
                   ELSE /\ input_files2' = IF cfg.alignment_mode = "paired"
                                           THEN sample.files[2] ELSE input_files2
                        /\ sample_name' = sample.name
                        /\ wk' = [wk EXCEPT ![w].i = @ + 1, ![w].pc = "setup"]
                        /\ UNCHANGED output_text
    /\ UNCHANGED <<running, process, stop_button, after_queue, cfg, nfiles, output_dir_exists,
                   messagebox, call>>

\* A directory creation that is left out.
makedirs_skipped(exists, exist_ok, can_create) ==
    [exists |-> exists, error |-> "none"]

\* os.makedirs(path, exist_ok=...) on a path that exists as a directory or
\* does not exist; can_create tells whether the system lets it be made.
makedirs(exists, exist_ok, can_create) ==
    IF exists
    THEN [exists |-> TRUE, error |-> IF exist_ok THEN "none" ELSE "FileExistsError"]
    ELSE IF can_create THEN [exists |-> TRUE, error |-> "none"]
    ELSE [exists |-> FALSE, error |-> "OSError"]

\* run_single_alignment before its try block: the parameters are read, the
\* output directory is made, the command is built and logged.  An exception
\* here (TclError of IntVar.get on a Threads field that holds no number,
\* OSError of os.makedirs) leaves through _run_alignment_thread's handler,
\* which logs it.
run_single_alignment(w) ==
    /\ wk[w].pc = "setup"
    /\ \E threads_ok \in BOOLEAN, can_create \in BOOLEAN :
         LET m == makedirs(output_dir_exists, TRUE, can_create)
         IN  IF ~threads_ok
             THEN /\ wk' = [wk EXCEPT ![w].raised = TRUE, ![w].error = "TclError",
                                      ![w].pc = "finally"]
                  /\ UNCHANGED output_dir_exists
             ELSE /\ output_dir_exists' = m.exists
                  /\ wk' = [wk EXCEPT ![w] =
                              IF m.error # "none"
                              THEN [@ EXCEPT !.raised = TRUE, !.error = m.error,
                                             !.pc = "finally"]
                              ELSE [@ EXCEPT !.job = input_files,
                                             !.cmd = build_command(cfg, input_files,
                                                                   input_files2, sample_name),
                                             !.pc = "launch"]]
    /\ output_text' = "text"
    /\ UNCHANGED <<running, process, stop_button, after_queue, cfg, nfiles,
                   input_files, input_files2, sample_name, messagebox, call>>

\* subprocess.Popen and self.process = process; an exception of Popen is
\* caught by the handler of the try block.
launch(w) ==
    /\ wk[w].pc = "launch"
    /\ \E ok \in BOOLEAN :
         IF ok
         THEN /\ process' = w
              /\ wk' = [wk EXCEPT ![w].ps = "live", ![w].pc = "read",
                                  ![w].launched = Append(@, wk[w].job)]
              /\ UNCHANGED output_text
         ELSE /\ wk' = [wk EXCEPT ![w].outcome = "error", ![w].raised = TRUE,
                                  ![w].error = "OSError", ![w].pc = "jobfin"]
              /\ output_text' = "text"
              /\ UNCHANGED process
    /\ UNCHANGED <<running, stop_button, after_queue, cfg, nfiles, output_dir_exists,
                   input_files, input_files2, sample_name, messagebox, call>>

\* Attribute lookup on the HISAT2GUI object: create_alignment_tab binds the
\* instance attribute convert_to_bam to a BooleanVar, and an instance
\* attribute hides the method of the same name defined in the class.
InstanceAttributes == {"convert_to_bam"}
Lookup(name) == IF name \in InstanceAttributes THEN "BooleanVar" ELSE "method"
Callable(obj) == obj = "method"

\* A conversion whose clean-up is run whether or not the commands succeeded.
convert_to_bam_always_cleans(files, view_ok, sort_ok) ==
    [files |-> {"sorted_bam"}, conv |-> IF view_ok /\ sort_ok THEN "done" ELSE "sort_failed",
     ran |-> <<"view", "sort">>, removed |-> {"sam", "bam"}, renamed |-> TRUE,
     error |-> IF view_ok /\ sort_ok THEN "" ELSE "Error converting to BAM",
     raised |-> FALSE]

\* The body of the method convert_to_bam on the files of one job: view writes
\* <name>.bam, sort writes <name>.sorted.bam; when both succeed the .sam and
\* the unsorted .bam are removed and the sorted file is renamed to <name>.bam.
\* check=True makes a failing step raise CalledProcessError, caught at the
\* end of the method.
\* The result also tells which commands were run, which files were removed,
\* whether the rename took place, the error logged, and whether an
\* exception left the method.
convert_to_bam(files, view_ok, sort_ok) ==
    IF ~view_ok
    THEN [files |-> files, conv |-> "view_failed", ran |-> <<"view">>,
          removed |-> {}, renamed |-> FALSE,
          error |-> "Error converting to BAM", raised |-> FALSE]
    ELSE IF ~sort_ok
    THEN [files |-> files \cup {"bam"}, conv |-> "sort_failed",
          ran |-> <<"view", "sort">>, removed |-> {}, renamed |-> FALSE,
          error |-> "Error converting to BAM", raised |-> FALSE]
    ELSE [files |-> {"sorted_bam"}, conv |-> "done", ran |-> <<"view", "sort">>,
          removed |-> {"sam", "bam"}, renamed |-> TRUE,
          error |-> "", raised |-> FALSE]

\* Lines 629-641 after process.wait() has returned: the job is classified by
\* its returncode and, on success with auto-convert set, the worker calls
\* self.convert_to_bam(sam_path); the TypeError of calling a BooleanVar is
\* caught by "except Exception" of the try block.
AlignmentResult(r, convert, view_ok, sort_ok) ==
    IF r.rc = 0
    THEN LET s == [r EXCEPT !.outcome = "success", !.files = {"sam"}]
         IN  IF convert
             THEN IF Callable(Lookup("convert_to_bam"))
                  THEN LET c == convert_to_bam(s.files, view_ok, sort_ok)
                       IN  [s EXCEPT !.files = c.files, !.conv = c.conv]
                  ELSE [s EXCEPT !.conv = "raised"]
             ELSE s
    ELSE [r EXCEPT !.outcome = "failed"]

\* One iteration of "for line in process.stdout": the line is logged, then
\* self.running is tested; a False flag terminates the process and leaves
\* the loop.
ReadLine(r) ==
    LET d == [r EXCEPT !.buf = @ - 1, !.lateLine = @ \/ r.jobStop]
    IN  IF running = FALSE
        THEN [Terminate(d, "worker") EXCEPT !.buf = 0, !.pc = "wait"]
        ELSE d

\* End of file on process.stdout: the process has exited and every line it
\* wrote has been read.
AtEOF(r) == r.ps = "exited" /\ r.buf = 0

\* process.wait() on a process that has exited, and the log of the result.
wait(w, r) ==
    IF r.rc = 0 /\ cfg.convert_to_bam /\ Callable(Lookup("convert_to_bam"))
    THEN \E view_ok \in BOOLEAN, sort_ok \in BOOLEAN :
           wk' = [wk EXCEPT ![w] =
                    [AlignmentResult(r, cfg.convert_to_bam, view_ok, sort_ok) EXCEPT !.pc = "jobfin"]]
    ELSE wk' = [wk EXCEPT ![w] =
                  [AlignmentResult(r, cfg.convert_to_bam, TRUE, TRUE) EXCEPT !.pc = "jobfin"]]

\* The loop over process.stdout of run_single_alignment: a step reads one
\* line or meets end of file; the step that leaves the loop goes on through
\* process.wait(), which finds the process exited, to the log of the result.
read_output(w) ==
    /\ wk[w].pc = "read"
    /\ \/ /\ wk[w].buf > 0
          /\ LET r == ReadLine(wk[w])
             IN  IF r.pc = "wait" THEN wait(w, r) ELSE wk' = [wk EXCEPT ![w] = r]
       \/ /\ AtEOF(wk[w])
          /\ wait(w, wk[w])
    /\ output_text' = "text"
    /\ UNCHANGED <<running, process, stop_button, after_queue, cfg, nfiles, output_dir_exists,
                   input_files, input_files2, sample_name, messagebox, call>>

\* The finally block of run_single_alignment, then the return to the caller,
\* the batch loop or _run_alignment_thread; the job's locals are gone.
job_finally(w) ==
    /\ wk[w].pc = "jobfin"
    /\ process' = None
    /\ wk' = [wk EXCEPT ![w] =
                 [@ EXCEPT !.pc = IF wk[w].batch THEN "loop" ELSE "finally",
                           !.job = NoWorker.job, !.cmd = NoWorker.cmd, !.ps = "none", !.rc = 0, !.buf = 0,
                           !.term = "none", !.files = {}, !.outcome = "none",
                           !.conv = "none", !.jobStop = FALSE, !.lateLine = FALSE]]
    /\ UNCHANGED <<running, stop_button, after_queue, cfg, nfiles, output_dir_exists,
                   input_files, input_files2, sample_name, messagebox, output_text, call>>

\* A finally block that queues the callback and leaves the flag as it is.
thread_finally_keeps_flag(w) ==
    /\ wk[w].pc = "finally"
    /\ after_queue < MaxPending
    /\ after_queue' = after_queue + 1
    /\ wk' = [wk EXCEPT ![w].pc = "finlog"]
    /\ UNCHANGED <<running, process, stop_button, cfg, nfiles, output_dir_exists,
                   input_files, input_files2, sample_name, messagebox, output_text, call>>

\* The finally block of _run_alignment_thread: the flag is cleared and the
\* disabling of the Stop button is queued for the foreground.
thread_finally(w) ==
    /\ wk[w].pc = "finally"
    /\ after_queue < MaxPending
    /\ running' = FALSE
    /\ after_queue' = after_queue + 1
    /\ wk' = [wk EXCEPT ![w].pc = "finlog"]
    /\ UNCHANGED <<process, stop_button, cfg, nfiles, output_dir_exists, input_files,
                   input_files2, sample_name, messagebox, output_text, call>>

\* log_message("Alignment finished"), the thread's report of its terminal
\* state and its last statement: the thread ends.
thread_finished(w) ==
    /\ wk[w].pc = "finlog"
    /\ wk' = [wk EXCEPT ![w] = NoWorker]
    /\ output_text' = "text"
    /\ UNCHANGED <<running, process, stop_button, after_queue, cfg, nfiles, output_dir_exists,
                   input_files, input_files2, sample_name, messagebox, call>>

\* _build_index_thread: Popen and self.process = process.
index_launch(w) ==
    /\ wk[w].pc = "ilaunch"
    /\ \E ok \in BOOLEAN :
         IF ok
         THEN /\ process' = w
              /\ wk' = [wk EXCEPT ![w].ps = "live", ![w].pc = "iread"]
         ELSE /\ wk' = [wk EXCEPT ![w].outcome = "error", ![w].raised = TRUE,
                                  ![w].error = "OSError", ![w].pc = "ifinally"]
              /\ UNCHANGED process
    /\ UNCHANGED <<running, stop_button, after_queue, cfg, nfiles, output_dir_exists,
                   input_files, input_files2, sample_name, messagebox, output_text, call>>

\* Lines 786-791: the index build is classified by its returncode.
IndexResult(rc) == IF rc = 0 THEN "success" ELSE "failed"

\* The loop over process.stdout of _build_index_thread, the same statements
\* as in run_single_alignment; the step that leaves the loop goes on through
\* process.wait() to the log of the result, the thread's report of its
\* terminal state.
index_read_output(w) ==
    /\ wk[w].pc = "iread"
    /\ \/ /\ wk[w].buf > 0
          /\ LET r == ReadLine(wk[w])
             IN  wk' = [wk EXCEPT ![w] =
                          IF r.pc = "wait"
                          THEN [r EXCEPT !.outcome = IndexResult(r.rc), !.pc = "ifinally"]
                          ELSE r]
       \/ /\ AtEOF(wk[w])
          /\ wk' = [wk EXCEPT ![w].outcome = IndexResult(wk[w].rc), ![w].pc = "ifinally"]
    /\ UNCHANGED <<running, process, stop_button, after_queue, cfg, nfiles, output_dir_exists,
                   input_files, input_files2, sample_name, messagebox, output_text, call>>

\* The finally block of _build_index_thread; the thread ends.
index_finally(w) ==
    /\ wk[w].pc = "ifinally"
    /\ process' = None
    /\ wk' = [wk EXCEPT ![w] = NoWorker]
    /\ UNCHANGED <<running, stop_button, after_queue, cfg, nfiles, output_dir_exists,
                   input_files, input_files2, sample_name, messagebox, output_text, call>>

\* A live external process writes a line to its output pipe.
proc_emit(w) ==
    /\ wk[w].ps = "live"
    /\ wk[w].buf < MaxLines
    /\ wk' = [wk EXCEPT ![w].buf = @ + 1]
    /\ UNCHANGED <<running, process, stop_button, after_queue, cfg, nfiles, output_dir_exists,
                   input_files, input_files2, sample_name, messagebox, output_text, call>>

\* A live external process exits by itself.
proc_exit(w) ==
    /\ wk[w].ps = "live"
    /\ \E c \in ExitCodes : wk' = [wk EXCEPT ![w].ps = "exited", ![w].rc = c]
    /\ UNCHANGED <<running, process, stop_button, after_queue, cfg, nfiles, output_dir_exists,
                   input_files, input_files2, sample_name, messagebox, output_text, call>>

Next ==
    \/ run_alignment
    \/ stop_alignment
    \/ build_index
    \/ after_callback
    \/ \E w \in Workers :
         \/ run_alignment_thread(w)
         \/ run_batch_alignment(w)
         \/ run_single_alignment(w)
         \/ launch(w)
         \/ read_output(w)
         \/ job_finally(w)
         \/ thread_finally(w)
         \/ thread_finished(w)
         \/ index_launch(w)
         \/ index_read_output(w)
         \/ index_finally(w)
         \/ proc_emit(w)
         \/ proc_exit(w)

Spec == Init /\ [][Next]_vars

----------------------------------------------------------------------------
(***************************************************************************)
(* The forms from which no job can be built: a required input is missing,  *)
(* or the batch directory holds no matching file.  The form does not       *)
(* change, so no thread reaches the batch loop or run_single_alignment,    *)
(* and the steps of Next that are left out are never enabled.  The         *)
(* BAM option, which only a job reads, is off, the directory listing is    *)
(* empty and the output directory, which only a job makes, does not exist. *)
(***************************************************************************)
InitNoJob ==
    /\ Init
    /\ ~cfg.convert_to_bam
    /\ nfiles = 0
    /\ ~output_dir_exists
    /\ \/ validate_inputs(cfg, input_files, input_files2) # "ok"
       \/ cfg.batch_mode /\ nfiles = 0

NextNoJob ==
    \/ run_alignment
    \/ stop_alignment
    \/ build_index
    \/ after_callback
    \/ \E w \in Workers :
         \/ run_alignment_thread(w)
         \/ thread_finally(w)
         \/ thread_finished(w)
         \/ index_launch(w)
         \/ index_read_output(w)
         \/ index_finally(w)
         \/ proc_emit(w)
         \/ proc_exit(w)

SpecNoJob == InitNoJob /\ [][NextNoJob]_vars

----------------------------------------------------------------------------
(***************************************************************************)
(* Alignment runs while the user goes on changing the form: the widgets of *)
(* the form stay enabled during a run.  The Read Type buttons lie in the   *)
(* frame that toggle_batch_mode shows only while Batch Mode is off.  The   *)
(* changes followed are those made while self.running is set, and the run  *)
(* followed is the first one, started on the empty console.                *)
(***************************************************************************)
first_run ==
    /\ output_text = ""
    /\ run_alignment

toggle_batch_mode ==
    /\ running
    /\ cfg' = [cfg EXCEPT !.batch_mode = ~@]
    /\ UNCHANGED <<running, process, stop_button, after_queue, nfiles, output_dir_exists,
                   input_files, input_files2, sample_name, messagebox,
                   output_text, wk, call>>

select_alignment_mode(m) ==
    /\ running
    /\ ~cfg.batch_mode
    /\ m # cfg.alignment_mode
    /\ cfg' = [cfg EXCEPT !.alignment_mode = m]
    /\ UNCHANGED <<running, process, stop_button, after_queue, nfiles, output_dir_exists,
                   input_files, input_files2, sample_name, messagebox,
                   output_text, wk, call>>

set_threads(n) ==
    /\ running
    /\ n # cfg.threads
    /\ cfg' = [cfg EXCEPT !.threads = n]
    /\ UNCHANGED <<running, process, stop_button, after_queue, nfiles, output_dir_exists,
                   input_files, input_files2, sample_name, messagebox,
                   output_text, wk, call>>

\* Every field of the form is filled in; a sample name may have been typed.
InitEdit ==
    /\ Idle
    /\ cfg \in Configs
    /\ cfg.index_path /\ cfg.batch_input_dir /\ cfg.output_dir
    /\ cfg.index_fasta /\ cfg.index_base
    /\ cfg.threads = 4 /\ cfg.preset_mode = "sensitive" /\ ~cfg.dta_mode
    /\ ~cfg.strand_specific /\ cfg.strand_direction = "unstranded"
    /\ ~cfg.convert_to_bam
    /\ sample_name = cfg.sample_name
    /\ input_files = UserFile
    /\ input_files2 = UserFile2
    /\ nfiles \in IF cfg.batch_mode THEN 1..MaxSamples ELSE {0}
    /\ output_dir_exists \in BOOLEAN
    /\ output_text = ""
    /\ call = NoCall

NextEdit ==
    \/ first_run
    \/ after_callback
    \/ toggle_batch_mode
    \/ \E m \in {"single", "paired"} : select_alignment_mode(m)
    \/ \E n \in ThreadCounts : set_threads(n)
    \/ \E w \in Workers :
         \/ run_alignment_thread(w)
         \/ run_batch_alignment(w)
         \/ run_single_alignment(w)
         \/ launch(w)
         \/ read_output(w)
         \/ job_finally(w)
         \/ thread_finally(w)
         \/ thread_finished(w)
         \/ proc_emit(w)
         \/ proc_exit(w)

SpecEdit == InitEdit /\ [][NextEdit]_vars

----------------------------------------------------------------------------
(***************************************************************************)
(* One run from the click to the end of its thread, with Stop clicks and   *)
(* changes of the form on the way, under the scheduling the program has:   *)
(* the thread of the run goes on taking steps, a live process exits in the *)
(* end, and the event loop runs the callbacks queued with root.after.      *)
(* root.after never blocks; the bound on queued callbacks is a bound of    *)
(* the model, so the step that queues one is taken when it is enabled      *)
(* again and again.  Nothing is assumed about the clicks of the user.      *)
(***************************************************************************)
NextRun ==
    \/ first_run
    \/ stop_alignment
    \/ after_callback
    \/ toggle_batch_mode
    \/ \E m \in {"single", "paired"} : select_alignment_mode(m)
    \/ \E n \in ThreadCounts : set_threads(n)
    \/ \E w \in Workers :
         \/ run_alignment_thread(w)
         \/ run_batch_alignment(w)
         \/ run_single_alignment(w)
         \/ launch(w)
         \/ read_output(w)
         \/ job_finally(w)
         \/ thread_finally(w)
         \/ thread_finished(w)
         \/ proc_emit(w)
         \/ proc_exit(w)

Fairness ==
    /\ WF_vars(after_callback)
    /\ \A w \in Workers :
         /\ WF_vars(run_alignment_thread(w))
         /\ WF_vars(run_batch_alignment(w))
         /\ WF_vars(run_single_alignment(w))
         /\ WF_vars(launch(w))
         /\ WF_vars(read_output(w))
         /\ WF_vars(job_finally(w))
         /\ SF_vars(thread_finally(w))
         /\ WF_vars(thread_finished(w))
         /\ WF_vars(proc_exit(w))

SpecRun == InitEdit /\ [][NextRun]_vars /\ Fairness

----------------------------------------------------------------------------
(***************************************************************************)
(* The methods group_paired_files, convert_to_bam and the command building *)
(* of run_single_alignment, each applied on its own to an argument drawn   *)
(* from a bounded set.                                                     *)
(***************************************************************************)
MaxFiles == 4        \* files in a directory given to group_paired_files

\* The form as the constructor leaves it: every path field is empty.
BlankForm ==
    [batch_mode |-> FALSE, alignment_mode |-> "single", convert_to_bam |-> TRUE,
     index_path |-> FALSE, batch_input_dir |-> FALSE, output_dir |-> FALSE,
     index_fasta |-> FALSE, index_base |-> FALSE,
     threads |-> 4, preset_mode |-> "sensitive", dta_mode |-> FALSE,
     strand_specific |-> FALSE, strand_direction |-> "unstranded",
     sample_name |-> Empty]

\* Names of FASTQ files: the name of a sample, the mark of a mate or none,
\* and an extension that the batch globs match.
Stems == {<<"a">>, <<"b">>, <<"a", ".2">>}
Mates == {<<"_R1">>, <<"_R2">>, <<>>}
Extensions == {<<".fastq">>, <<".fastq", ".gz">>}
FileOf(st, mate, ext) == st \o mate \o ext
FastqNames == {FileOf(st, m, e) : st \in Stems, m \in Mates, e \in Extensions}

\* The directories given to group_paired_files.
Directories == {d \in SUBSET FastqNames : Cardinality(d) <= MaxFiles}

\* The forms given to the command building: every path is filled in.
CommandForms ==
    {c \in Configs : /\ ~c.batch_mode /\ c.convert_to_bam
                     /\ c.index_path /\ c.batch_input_dir /\ c.output_dir
                     /\ c.index_fasta /\ c.index_base}

\* The list samples of run_batch_alignment for the files the globs match.
\* In single-end mode the list follows the order in which glob yields the
\* files, which the system decides; the sorted order stands for it.
batch_samples(mode, files) ==
    IF mode = "paired" THEN group_paired_files(files).samples
    ELSE LET fs == sorted(files)
         IN  [k \in 1..Len(fs) |->
                [name |-> replace(replace(stem(fs[k]), ".fastq"), ".fq"),
                 files |-> <<fs[k]>>]]

\* The output path of each job of a batch: the loop writes the Sample's first
\* file and its name to the form (671, 674) and run_single_alignment makes
\* sam_path from them (579-583).
batch_outputs(mode, files) ==
    LET ss == batch_samples(mode, files)
    IN  [k \in 1..Len(ss) |->
           [dir |-> TRUE, base |-> base_name(ss[k].name, ss[k].files[1]), ext |-> ".sam"]]

\* A command line is a string held as the sequence of its pieces: a space
\* is the piece " ", every other piece holds no space.  A path with a space
\* in it is a sequence with the piece " " inside.
Space == " "
Digits == <<"0", "1", "2", "3", "4", "5", "6", "7", "8", "9">>

\* str(n) of a thread count, as the f-string of line 589 formats it.
RECURSIVE str(_)
str(n) == IF n < 10 THEN <<Digits[n + 1]>> ELSE str(n \div 10) \o <<Digits[(n % 10) + 1]>>

\* The list cmd of run_single_alignment as text: the program, "-x <index>",
\* "-p <threads>", "--<preset>", the dta option or the empty string, the
\* strandness option if any, the input option and "-S <sam_path>".  Nothing
\* is quoted.
cmd_list(hisat2_path, index, threads, preset, dta, strand, mode, in1, in2, sam_path) ==
    <<hisat2_path,
      <<"-x", Space>> \o index,
      <<"-p", Space>> \o str(threads),
      <<"--" \o preset>>,
      IF dta THEN <<"--dta">> ELSE <<>>>>
    \o [k \in 1..Len(strand) |-> <<strand[k]>>]
    \o <<IF mode = "single"
         THEN <<"-U", Space>> \o in1
         ELSE <<"-1", Space>> \o in1 \o <<Space, "-2", Space>> \o in2,
         <<"-S", Space>> \o sam_path>>

\* " ".join(cmd)
RECURSIVE join(_)
join(parts) ==
    IF parts = <<>> THEN <<>>
    ELSE IF Len(parts) = 1 THEN parts[1]
    ELSE parts[1] \o <<Space>> \o join(Tail(parts))

\* Popen(..., shell=True) on an unquoted string: the shell splits it into
\* words at every run of spaces; the words are the arguments of the program.
RECURSIVE shell_words(_, _)
shell_words(text, word) ==
    IF text = <<>> THEN (IF word = <<>> THEN <<>> ELSE <<word>>)
    ELSE IF text[1] = Space
    THEN (IF word = <<>> THEN <<>> ELSE <<word>>) \o shell_words(Tail(text), <<>>)
    ELSE shell_words(Tail(text), Append(word, text[1]))

\* The paths a command is built from: without and with a space.
IndexPaths == {<<"idx">>, <<"my", Space, "idx">>}
InputPaths == {<<"r1.fq">>, <<"my", Space, "r1.fq">>}
InputPaths2 == {<<"r2.fq">>, <<"my", Space, "r2.fq">>}
CommandArgs ==
    [index : IndexPaths, threads : ThreadCounts \cup {16}, dta : BOOLEAN,
     mode : {"single", "paired"}, in1 : InputPaths, in2 : InputPaths2]

\* What samtools does when the conversion chain is run.
Samtools == [files : {{"sam"}}, view_ok : BOOLEAN, sort_ok : BOOLEAN]

Calls ==
    [fn : {"group_paired_files"}, arg : Directories, done : {FALSE}, ret : {"none"}]
        \cup [fn : {"convert_to_bam"}, arg : Samtools, done : {FALSE}, ret : {"none"}]
        \cup [fn : {"build_command"},
              arg : [c : CommandForms, in1 : {UserFile}, in2 : {Empty, UserFile2}],
              done : {FALSE}, ret : {"none"}]
        \cup [fn : {"Popen"}, arg : CommandArgs, done : {FALSE}, ret : {"none"}]
        \cup [fn : {"run_batch_alignment"},
              arg : [mode : {"single", "paired"}, files : Directories \ {{}}],
              done : {FALSE}, ret : {"none"}]

InitCalls ==
    /\ Idle
    /\ cfg = BlankForm
    /\ nfiles = 0
    /\ output_dir_exists = FALSE
    /\ input_files = Empty
    /\ input_files2 = Empty
    /\ sample_name = Empty
    /\ output_text = ""
    /\ call \in Calls

Returns(v) ==
    /\ ~call.done
    /\ call' = [call EXCEPT !.done = TRUE, !.ret = v]
    /\ UNCHANGED <<running, process, stop_button, after_queue, cfg, nfiles, output_dir_exists,
                   input_files, input_files2, sample_name, messagebox,
                   output_text, wk>>

call_group_paired_files ==
    /\ call.fn = "group_paired_files"
    /\ Returns(group_paired_files(call.arg))

call_convert_to_bam ==
    /\ call.fn = "convert_to_bam"
    /\ Returns(convert_to_bam(call.arg.files, call.arg.view_ok, call.arg.sort_ok))

call_build_command ==
    /\ call.fn = "build_command"
    /\ Returns(build_command(call.arg.c, call.arg.in1, call.arg.in2,
                             call.arg.c.sample_name))

\* Lines 586-616: the command is built, joined and handed to the shell; the
\* result is the argument vector of the process.
call_Popen ==
    /\ call.fn = "Popen"
    /\ LET a == call.arg
       IN  Returns(shell_words(join(cmd_list(<<"hisat2">>, a.index, a.threads,
                                             "sensitive", a.dta, <<>>, a.mode,
                                             a.in1, a.in2, <<"out/u.sam">>)),
                               <<>>))

call_run_batch_alignment ==
    /\ call.fn = "run_batch_alignment"
    /\ Returns(batch_outputs(call.arg.mode, call.arg.files))

NextCalls ==
    \/ call_Popen
    \/ call_run_batch_alignment
    \/ call_group_paired_files
    \/ call_convert_to_bam
    \/ call_build_command

SpecCalls == InitCalls /\ [][NextCalls]_vars

----------------------------------------------------------------------------
\* The Samples 1..n in discovery order.
InOrder(n) == [k \in 1..n |-> DirFile(k)]

\* C1: at every instant at most one external process started by the program
\* is live.
AtMostOneProcessLive ==
    Cardinality({w \in Workers : wk[w].ps = "live"}) <= 1

\* C2: once stop_alignment has cleared the flag and terminated the live
\* process of a batch run, that run launches no further process.
NoLaunchAfterStop ==
    [][\A w \in Workers :
          (wk[w].batch /\ wk[w].cancelled)
              => Len(wk'[w].launched) <= Len(wk[w].launched)]_vars

\* C3: at every instant at most one background worker (alignment or index
\* build) is active.
AtMostOneWorker ==
    Cardinality({w \in Workers : Active(w)}) <= 1

\* C4: a job whose lines were being read when a Stop click was accepted has
\* had its process asked to terminate, delivers no further line, and is
\* classified Cancelled when its result is logged.
StopWhileReadingCancels ==
    \A w \in Workers :
        (wk[w].kind = "align" /\ wk[w].jobStop)
            => /\ wk[w].ps = "exited"
               /\ ~wk[w].lateLine
               /\ wk[w].pc = "jobfin" => wk[w].outcome = "cancelled"

\* C5: an index build for which no Stop was requested is never terminated by
\* the program, and its result is success exactly when its exit status is 0.
IndexBuildRunsToExit ==
    \A w \in Workers :
        (wk[w].kind = "index" /\ ~wk[w].stopped)
            => /\ wk[w].term = "none"
               /\ wk[w].outcome \in {"success", "failed"}
                    => (wk[w].outcome = "success" <=> wk[w].rc = 0)

\* C6: the process of an alignment job is terminated by the program only if
\* a Stop was requested during the run that launched it.
TerminatedOnlyByOwnStop ==
    \A w \in Workers :
        (wk[w].kind = "align" /\ wk[w].term # "none") => wk[w].stopped

\* The next step of worker w logs its terminal state: "Alignment finished",
\* or the result of the index build on leaving the loop over its output.
ReportsTerminalState(w) ==
    \/ wk[w].pc = "finlog"
    \/ /\ wk[w].pc = "iread"
       /\ AtEOF(wk[w]) \/ (wk[w].buf > 0 /\ running = FALSE)

\* C7: whenever a worker reports its terminal state, self.running is False
\* and self.process is None.
CleanAtTerminalReport ==
    \A w \in Workers :
        ReportsTerminalState(w) => (running = FALSE /\ process = None)

\* C8: whenever the user can click Stop while self.running is true, the click
\* is accepted by stop_alignment as a cancellation.
StopAcceptedWheneverRunning ==
    (stop_button = "normal" /\ running) => process # None

\* C9: a batch run with no stop request and no exception launches its Samples
\* in discovery order, each once; a job is logged as failed exactly when its
\* process exited non-zero; and when the loop is left every Sample has been
\* launched.
BatchContinuesPastFailure ==
    \A w \in Workers :
        (wk[w].kind = "align" /\ wk[w].batch /\ ~wk[w].stopped /\ ~wk[w].raised)
            => /\ wk[w].launched = InOrder(Len(wk[w].launched))
               /\ wk[w].pc = "jobfin" => (wk[w].outcome = "failed" <=> wk[w].rc # 0)
               /\ wk[w].pc \in {"finally", "finlog"} => wk[w].launched = InOrder(nfiles)

\* C10: with auto-convert set, a job whose aligner exited with status 0 has
\* run the encode step and then the sort step; when both succeeded, only the
\* sorted file, renamed to <name>.bam, is left.
ConversionChainRuns ==
    \A w \in Workers :
        (wk[w].pc = "jobfin" /\ wk[w].outcome = "success" /\ cfg.convert_to_bam)
            => /\ wk[w].conv \in {"done", "view_failed", "sort_failed"}
               /\ wk[w].conv = "done" => wk[w].files = {"sorted_bam"}

SampleSets ==
    {P \in SUBSET (Stems \X Extensions) : \A s \in P, t \in P : s[1] = t[1] => s = t}
PairsOf(P) ==
    {<<FileOf(s[1], <<"_R1">>, s[2]), FileOf(s[1], <<"_R2">>, s[2])>> : s \in P}
FilesOf(P) == UNION {{p[1], p[2]} : p \in PairsOf(P)}
Grouped(ret) == {ret.samples[k].files : k \in 1..Len(ret.samples)}

\* C12: for a directory whose files are the two mates <sample>_R1 and
\* <sample>_R2 of each of its samples, group_paired_files returns one Sample
\* for each sample, holding its two mates, N/2 Samples in all, and logs no
\* warning.
ConsistentPairsAllGrouped ==
    (call.fn = "group_paired_files" /\ call.done)
        => \A P \in SampleSets :
              call.arg = FilesOf(P)
                  => /\ call.ret.warnings = <<>>
                     /\ Len(call.ret.samples) = Cardinality(P)
                     /\ 2 * Len(call.ret.samples) = Cardinality(call.arg)
                     /\ Grouped(call.ret) = PairsOf(P)

\* No name of the directory holds ".1" or ".2".
Plain(files) == \A f \in files : \A k \in 1..Len(f) : f[k] \notin {".1", ".2"}

\* C13: for a directory that holds one file x without a mate besides the
\* mates of its samples, group_paired_files logs one warning, for x, and
\* returns one Sample with both mates for each sample, wherever x sorts.
\* (Stated for names without ".1" and ".2", which C12 shows to break the
\* pairing by themselves.)
OneUnpairedOneWarning ==
    (call.fn = "group_paired_files" /\ call.done /\ Plain(call.arg))
        => \A x \in call.arg, P \in SampleSets :
              call.arg \ {x} = FilesOf(P)
                  => /\ Len(call.ret.warnings) = 1
                     /\ call.ret.warnings[1].file = x
                     /\ Grouped(call.ret) = PairsOf(P)

\* The positions of a thread at which the command of its job is built.
JobPcs == {"launch", "read", "jobfin"}

\* C14: in a state where a required input is missing, a click on Run
\* Alignment shows the error of the first missing input and changes nothing
\* else; the flag stays False, the console keeps its text, and no alignment
\* thread and no process of one exists.
MissingInputRejected ==
    [][LET v == validate_inputs(cfg, input_files, input_files2)
       IN  v # "ok"
              => /\ ~running'
                 /\ output_text' = output_text
                 /\ \A w \in Workers : wk'[w].kind # "align"
                 /\ \A w \in Workers : wk'[w].pc \notin JobPcs \cup {"loop", "setup"}
                 /\ run_alignment
                      => /\ messagebox' = v
                         /\ UNCHANGED <<running, process, stop_button, wk>>]_vars

\* The error of a missing input has been shown and the console still holds
\* the text it held.
RejectedWithLogKept ==
    /\ messagebox = validate_inputs(cfg, input_files, input_files2)
    /\ output_text = "text"
    /\ ~running

\* C15: the thread of a batch run over a directory without a matching file
\* logs the error and goes to its finally block, where it clears the flag,
\* and then ends; it never has a process and does not start over.
EmptyBatchEnds ==
    [][\A w \in Workers :
          (wk[w].kind = "align" /\ cfg.batch_mode /\ nfiles = 0)
              => /\ (wk[w].pc = "start" /\ wk'[w].pc # "start")
                      => /\ wk'[w].pc = "finally"
                         /\ wk'[w].outcome = "empty"
                         /\ output_text' = "text"
                 /\ (wk[w].pc = "finally" /\ wk'[w].pc # "finally")
                      => /\ wk'[w].pc = "finlog"
                         /\ running' = FALSE
                 /\ (wk[w].pc = "finlog" /\ wk'[w].pc # "finlog")
                      => wk'[w] = NoWorker
                 /\ wk'[w].pc \in {"start", "finally", "finlog", "idle"}
                 /\ wk'[w].ps = "none"
                 /\ wk'[w].launched = <<>>]_vars

\* The thread of an empty batch run has cleared the flag.
EmptyBatchReported ==
    \E w \in Workers :
        /\ wk[w].pc = "finlog"
        /\ wk[w].outcome = "empty"
        /\ ~running
        /\ output_text = "text"

\* C16: when a thread in which an exception was raised runs its finally
\* block (the last one, for an alignment thread), the flag is False and the
\* process handle is None afterwards.
ExceptionLeavesCleanState ==
    [][\A w \in Workers :
          (/\ wk[w].raised
           /\ \/ wk[w].pc = "finally" /\ wk'[w].pc = "finlog"
              \/ wk[w].pc = "ifinally" /\ wk'[w].pc = "idle")
              => (running' = FALSE /\ process' = None)]_vars

\* C17: the command of every job is built from the settings the form held
\* when Run Alignment started the run.
JobsUseStartConfiguration ==
    \A w \in Workers :
        (wk[w].kind = "align" /\ wk[w].pc \in JobPcs)
            => LET c == wk[w].cmd
                   c0 == wk[w].cfg0
               IN  /\ c.x = c0.index_path
                   /\ c.p = c0.threads
                   /\ c.preset = c0.preset_mode
                   /\ c.dta = (IF c0.dta_mode THEN "--dta" ELSE "")
                   /\ c.strandness = strandness(c0)
                   /\ Len(c.inputs) = (IF c0.alignment_mode = "single" THEN 1 ELSE 2)
                   /\ c.S.dir = c0.output_dir

\* C18: with Strand-specific set the command holds one strandness option,
\* FR or RF as the direction says; without it the command holds none.
StrandnessFlag ==
    (call.fn = "build_command" /\ call.done)
        => LET c == call.arg.c
               flags == call.ret.strandness
           IN  IF c.strand_specific
               THEN /\ Len(flags) = 1
                    /\ flags[1] \in {"--rna-strandness FR", "--rna-strandness RF"}
                    /\ c.strand_direction = "fr" => flags[1] = "--rna-strandness FR"
                    /\ c.strand_direction = "rf" => flags[1] = "--rna-strandness RF"
               ELSE flags = <<>>

\* C19: the command of a batch job names exactly the files of its Sample,
\* with -U for a Sample of one file and -1, -2 for a Sample of two (a job
\* whose Sample does not fit the read type is never built).
InputFormMatchesSample ==
    \A w \in Workers :
        (wk[w].kind = "align" /\ wk[w].batch /\ wk[w].pc \in JobPcs)
            => LET sample == wk[w].samples[wk[w].i]
                   inputs == wk[w].cmd.inputs
               IN  /\ [k \in 1..Len(inputs) |-> inputs[k].file] = sample.files
                   /\ [k \in 1..Len(inputs) |-> inputs[k].flag]
                        = (IF Len(sample.files) = 1 THEN <<"-U">> ELSE <<"-1", "-2">>)

\* C20: the output path of a job is <output_dir>/<name>.sam, where <name>
\* is the sample name the user typed, if any, and else the name derived for
\* the Sample.
OutputPathUsesOverride ==
    \A w \in Workers :
        (wk[w].kind = "align" /\ wk[w].pc \in JobPcs)
            => LET typed == wk[w].cfg0.sample_name
                   derived == IF wk[w].batch THEN wk[w].samples[wk[w].i].name
                              ELSE base_name(Empty, wk[w].job)
               IN  wk[w].cmd.S = [dir |-> wk[w].cfg0.output_dir,
                                  base |-> IF typed # Empty THEN typed ELSE derived,
                                  ext |-> ".sam"]

\* The steps taken in the foreground context: the handlers of the buttons
\* and the callbacks queued with root.after, which the event loop of the
\* main thread runs.
Foreground == run_alignment \/ stop_alignment \/ build_index \/ after_callback

\* C21: the text of the output console is changed only by a step of the
\* foreground context, never by a step of a worker thread.
ConsoleWrittenInForeground ==
    [][output_text' # output_text => Foreground]_vars

\* C22: whenever the process of a job is about to be launched or has been
\* launched, the output directory exists; and the set-up of a job that finds
\* the directory in place goes on to the launch (it can fail only on reading
\* the Threads field), in single-sample mode and for every Sample of a batch.
OutputDirMadeBeforeLaunch ==
    [][\A w \in Workers :
          /\ wk'[w].pc \in JobPcs => output_dir_exists'
          /\ (wk[w].pc = "setup" /\ wk'[w].pc # "setup" /\ output_dir_exists)
                => /\ output_dir_exists'
                   /\ wk'[w].pc = "launch" \/ wk'[w].error = "TclError"]_vars

\* The process of the second Sample of a batch has been launched: its
\* set-up found the directory that the first job had made.
SecondJobLaunched ==
    \E w \in Workers :
        /\ wk[w].batch
        /\ Len(wk[w].launched) >= 2
        /\ wk[w].pc = "read"
        /\ output_dir_exists

\* The argument that follows option opt in an argument vector, as one
\* string; <<>> when the option is not there.
OptionValue(argv, opt) ==
    LET at == {k \in 1..(Len(argv) - 1) : argv[k] = <<opt>>}
    IN  IF at = {} THEN <<>> ELSE argv[(CHOOSE k \in at : \A j \in at : k <= j) + 1]

\* The number a string of decimal digits writes; -1 for any other string.
RECURSIVE parse_int(_)
parse_int(word) ==
    IF word = <<>> \/ \E k \in 1..Len(word) : \A d \in 1..10 : Digits[d] # word[k]
    THEN -1
    ELSE LET last == (CHOOSE d \in 1..10 : Digits[d] = word[Len(word)]) - 1
         IN  IF Len(word) = 1 THEN last
             ELSE 10 * parse_int(SubSeq(word, 1, Len(word) - 1)) + last

\* C23: the arguments of the launched process give back the index path,
\* the thread count and the input paths the command was built from, also
\* for paths with a space in them.
CommandRoundTrip ==
    (call.fn = "Popen" /\ call.done)
        => LET a == call.arg
               argv == call.ret
           IN  /\ OptionValue(argv, "-x") = a.index
               /\ parse_int(OptionValue(argv, "-p")) = a.threads
               /\ a.mode = "single" => OptionValue(argv, "-U") = a.in1
               /\ a.mode = "paired" => /\ OptionValue(argv, "-1") = a.in1
                                       /\ OptionValue(argv, "-2") = a.in2

\* C24: whenever a run is active (self.running is set), there comes a state
\* in which self.running is False, which is what Run Alignment tests before
\* it accepts a click, and the Stop button is disabled.
RunEventuallyEnds ==
    running ~> (~running /\ stop_button = "disabled")

\* The thread of a run that launched a process has cleared the flag, and the
\* callback it queued has disabled the Stop button.
RunEnded ==
    \E w \in Workers :
        /\ wk[w].pc = "finlog"
        /\ wk[w].launched # <<>>
        /\ ~running
        /\ stop_button = "disabled"

\* The files group_paired_files has logged a warning for.
Warned(ret) == {ret.warnings[k].file : k \in 1..Len(ret.warnings)}

\* C25: group_paired_files on N files returns S Samples and logs W warnings
\* with 2 * S + W = N; every file is in exactly one Sample or has exactly one
\* warning; the two files of a Sample are neighbours in the sorted list, the
\* first sorting before the second.
EveryFileAccountedOnce ==
    (call.fn = "group_paired_files" /\ call.done)
        => LET ret == call.ret
               S == Len(ret.samples)
               W == Len(ret.warnings)
               in_samples == UNION {{p[1], p[2]} : p \in Grouped(ret)}
           IN  /\ 2 * S + W = Cardinality(call.arg)
               /\ \A k \in 1..S : Len(ret.samples[k].files) = 2
               /\ Cardinality(in_samples) = 2 * S
               /\ Cardinality(Warned(ret)) = W
               /\ in_samples \cap Warned(ret) = {}
               /\ in_samples \cup Warned(ret) = call.arg
               /\ \A p \in Grouped(ret) :
                     /\ StrLess(p[1], p[2])
                     /\ ~\E g \in call.arg : StrLess(p[1], g) /\ StrLess(g, p[2])

\* A directory of four files has given one Sample and two warnings.
PairAmongUnpaired ==
    /\ call.fn = "group_paired_files" /\ call.done
    /\ Cardinality(call.arg) = 4
    /\ Len(call.ret.samples) = 1
    /\ Len(call.ret.warnings) = 2

\* C26: the jobs of one batch run are given different output paths.
BatchOutputPathsDiffer ==
    (call.fn = "run_batch_alignment" /\ call.done)
        => \A j \in 1..Len(call.ret), k \in 1..Len(call.ret) :
              j # k => call.ret[j] # call.ret[k]

\* C27: when no batch run is active, the two input file fields and the
\* Sample Name field hold what the user entered: the files chosen and the
\* name typed before the run.
BatchLeavesInputs ==
    (\A w \in Workers : ~wk[w].batch)
        => /\ input_files = UserFile
           /\ input_files2 = UserFile2
           /\ sample_name = cfg.sample_name
====
